---- MODULE Spec2Model ----
(***************************************************************************)
(* werkzeug.contrib.sessions: the modification tracking dict, the session, *)
(* the filesystem session store and the session middleware.                *)
(*                                                                         *)
(* Six specifications share this module:                                   *)
(*   SpecKey   is_valid_key applied to candidate keys                      *)
(*   SpecBase  get of the base class SessionStore on candidate keys        *)
(*   SpecDict  one ModificationTrackingDict under its container operations *)
(*   Spec      SessionMiddleware requests handled one after the other over *)
(*             one FilesystemSessionStore directory                        *)
(*   SpecConc  requests handled at once over the same directory; file      *)
(*             opens, writes, reads and unlinks of different requests      *)
(*             interleave                                                  *)
(*   SpecFault requests handled one after the other where unlink may be    *)
(*             refused and a session may hold a value dump cannot write    *)
(***************************************************************************)
EXTENDS Integers, Sequences, FiniteSets, TLC

VARIABLES key, valid, kpc, returned, mtd, lastop, copied, req, fs, issued, sent, hist,
          lim, used

vars ==
    <<key, valid, kpc, returned, mtd, lastop, copied, req, fs, issued, sent, hist, lim,
      used>>

keyVars == <<key, valid, kpc, returned>>
dictVars == <<mtd, lastop, copied>>
storeVars == <<req, fs, issued, sent, hist, lim, used>>
otherVars == <<key, valid, kpc, returned, mtd, lastop, copied, lim>>

(***************************************************************************)
(* Bounds of the model and constants of the program                        *)
(***************************************************************************)
\* {40} of _sha1_re; also the length of a sha1 hexdigest
KeyLen == 40
\* candidate keys are up to MaxSlack characters shorter or longer than KeyLen
MaxSlack == 1
\* container operations the handlers of one worker apply to their sessions
MaxOps == 1
\* start_response calls of the handler in one request
MaxSR == 2
\* store.delete calls of the handlers of one worker
MaxDel == 2
\* requests a worker handles one after the other
MaxRounds == 2
\* the first three, where requests run at once or the file system fails
ConcOps == 1
ConcSR == 1
ConcDel == 1

(***************************************************************************)
(* Characters and keys.  A string is a sequence of one-character strings.  *)
(***************************************************************************)
HexDigits ==
    {"0", "1", "2", "3", "4", "5", "6", "7", "8", "9",
     "a", "b", "c", "d", "e", "f", "A", "B", "C", "D", "E", "F"}

Fill(c, n) == [i \in 1..n |-> c]

Subst(s, p, x) == [i \in 1..Len(s) |-> IF i = p THEN x ELSE s[i]]

\* '$' of a pattern compiled without re.MULTILINE: the end of the string, or
\* the position just before a line feed that ends the string
AtDollar(s, pos) ==
    \/ pos = Len(s) + 1
    \/ pos = Len(s) /\ s[pos] = "\n"

\* _sha1_re.match(key): '^', then exactly KeyLen characters of the class
\* [a-fA-F0-9], then '$'
sha1_re_match(s) ==
    /\ Len(s) >= KeyLen
    /\ \A i \in 1..KeyLen : s[i] \in HexDigits
    /\ AtDollar(s, KeyLen + 1)

is_valid_key(k) == sha1_re_match(k)

(***************************************************************************)
(* Mappings (dict) and the wrapped container operations                    *)
(***************************************************************************)
EmptyMap == [k \in {} |-> 0]

Mappings(K, V) == UNION {[S -> V] : S \in SUBSET K}

SetKey(m, k, v) == [x \in (DOMAIN m) \cup {k} |-> IF x = k THEN v ELSE m[x]]

DelKey(m, k) == [x \in (DOMAIN m) \ {k} |-> m[x]]

\* The dict methods: the mapping after the call, and whether the call raised.
dict_setitem(m, k, v) == [data |-> SetKey(m, k, v), raised |-> FALSE]

dict_delitem(m, k) ==
    IF k \in DOMAIN m THEN [data |-> DelKey(m, k), raised |-> FALSE]
    ELSE [data |-> m, raised |-> TRUE]

dict_clear(m) == [data |-> EmptyMap, raised |-> FALSE]

\* pop(k) raises KeyError on a missing key; pop(k, default) does not
dict_pop(m, k, hasDefault) ==
    IF k \in DOMAIN m THEN [data |-> DelKey(m, k), raised |-> FALSE]
    ELSE [data |-> m, raised |-> ~hasDefault]

\* popitem removes some pair k; on an empty dict it raises KeyError
dict_popitem(m, k) ==
    IF DOMAIN m = {} THEN [data |-> m, raised |-> TRUE]
    ELSE [data |-> DelKey(m, k), raised |-> FALSE]

dict_setdefault(m, k, v) ==
    IF k \in DOMAIN m THEN [data |-> m, raised |-> FALSE]
    ELSE [data |-> SetKey(m, k, v), raised |-> FALSE]

dict_update(m, other) ==
    [data |-> [x \in (DOMAIN m) \cup (DOMAIN other) |->
                  IF x \in DOMAIN other THEN other[x] ELSE m[x]],
     raised |-> FALSE]

\* a wrapper that sets the flag only when the wrapped call returns
call_with_modification_on_success(self, r) ==
    [self EXCEPT !.data = r.data,
                 !.modified = IF r.raised THEN @ ELSE TRUE]

\* oncall: try: return f(self, ...) finally: self.modified = True
call_with_modification(self, r) ==
    [self EXCEPT !.data = r.data, !.modified = TRUE]

\* ModificationTrackingDict.__init__: the dict's contents, modified = False
ModificationTrackingDict(m) == [data |-> m, modified |-> FALSE]

\* the bases of ModificationTrackingDict and of Session, nearest first
Bases == <<"dict", "object">>

\* object.__new__(cls): TypeError ("object.__new__(cls) is not safe, use
\* dict.__new__()") when the nearest built-in base of cls is not object
object_new(bases) == [raised |-> bases[1] # "object"]

\* what a call of copy gave: no container (made is FALSE) or a container
NoCopy == [made |-> FALSE, data |-> EmptyMap, modified |-> FALSE]

\* ModificationTrackingDict.copy: result = object.__new__(self.__class__),
\* then the slots of self (modified; sid and new in a Session) are set on
\* result; no item of self is put into result
copy(self) ==
    IF object_new(Bases).raised
    THEN [raised |-> TRUE, result |-> NoCopy]
    ELSE [raised |-> FALSE,
          result |-> [made |-> TRUE, data |-> EmptyMap,
                      modified |-> self.modified]]

(***************************************************************************)
(* SpecKey: is_valid_key on candidate keys                                 *)
(***************************************************************************)
FillChars == {"a", "F", "0"}

Alphabet == {"0", "9", "a", "f", "A", "F", "g", "G", "\n", " ", "-"}

KeyLens == {0} \cup {n \in (KeyLen - MaxSlack)..(KeyLen + MaxSlack) : n >= 0}

CandidateKeys ==
    UNION {{Subst(Fill(c, n), p, x) : c \in FillChars, p \in {1, n}, x \in Alphabet} :
              n \in KeyLens}

InitKey ==
    /\ key \in CandidateKeys
    /\ valid = FALSE
    /\ kpc = "ready"
    /\ returned = <<>>
    /\ mtd = ModificationTrackingDict(EmptyMap)
    /\ lastop = [op |-> "init", raised |-> FALSE]
    /\ copied = NoCopy
    /\ req = <<>>
    /\ fs = <<>>
    /\ issued = {}
    /\ sent = {}
    /\ hist = <<>>
    /\ lim = <<>>
    /\ used = <<>>

IsValidKeyCall ==
    /\ kpc = "ready"
    /\ valid' = is_valid_key(key)
    /\ kpc' = "called"
    /\ UNCHANGED <<key, returned, dictVars, storeVars>>

NextKey == IsValidKeyCall

SpecKey == InitKey /\ [][NextKey]_vars

(***************************************************************************)
(* SpecDict: a ModificationTrackingDict under its container operations     *)
(***************************************************************************)
DictKeys == {"a", "b", "c"}

DictVals == {1, 2}

Mutators ==
    {"__setitem__", "__delitem__", "clear", "pop", "popitem", "setdefault",
     "update"}

InitDict ==
    /\ \E m \in Mappings(DictKeys, DictVals) : mtd = ModificationTrackingDict(m)
    /\ lastop = [op |-> "init", raised |-> FALSE]
    /\ copied = NoCopy
    /\ key = <<>>
    /\ valid = FALSE
    /\ kpc = "ready"
    /\ returned = <<>>
    /\ req = <<>>
    /\ fs = <<>>
    /\ issued = {}
    /\ sent = {}
    /\ hist = <<>>
    /\ lim = <<>>
    /\ used = <<>>

\* a wrapped method is called: the dict after it, and what the call did
Wrapped(name, r) ==
    /\ mtd' = call_with_modification(mtd, r)
    /\ lastop' = [op |-> name, raised |-> r.raised]
    /\ UNCHANGED <<copied, keyVars, storeVars>>

SetItem == \E k \in DictKeys, v \in DictVals :
    Wrapped("__setitem__", dict_setitem(mtd.data, k, v))

DelItem == \E k \in DictKeys : Wrapped("__delitem__", dict_delitem(mtd.data, k))

Clear == Wrapped("clear", dict_clear(mtd.data))

Pop == \E k \in DictKeys, hasDefault \in BOOLEAN :
    Wrapped("pop", dict_pop(mtd.data, k, hasDefault))

PopItem ==
    \/ /\ DOMAIN mtd.data = {}
       /\ Wrapped("popitem", dict_popitem(mtd.data, "a"))
    \/ \E k \in DOMAIN mtd.data : Wrapped("popitem", dict_popitem(mtd.data, k))

SetDefault == \E k \in DictKeys, v \in DictVals :
    Wrapped("setdefault", dict_setdefault(mtd.data, k, v))

Update == \E other \in Mappings(DictKeys, DictVals) :
    Wrapped("update", dict_update(mtd.data, other))

\* the inherited, unwrapped reads: __getitem__ (KeyError on a missing key),
\* get, __contains__, keys, ...
Read == \E k \in DictKeys :
    /\ lastop' = [op |-> "read", raised |-> k \notin DOMAIN mtd.data]
    /\ UNCHANGED <<mtd, copied, keyVars, storeVars>>

\* copy() or copy.copy(d), which calls __copy__ and so copy()
Copy ==
    /\ lastop' = [op |-> "copy", raised |-> copy(mtd).raised]
    /\ copied' = copy(mtd).result
    /\ UNCHANGED <<mtd, keyVars, storeVars>>

NextDict ==
    \/ SetItem
    \/ DelItem
    \/ Clear
    \/ Pop
    \/ PopItem
    \/ SetDefault
    \/ Update
    \/ Read
    \/ Copy

SpecDict == InitDict /\ [][NextDict]_vars

(***************************************************************************)
(* Session and SessionStore                                                *)
(***************************************************************************)
\* Session.__init__: ModificationTrackingDict.__init__(self, data), sid, new
Session(data, sid, new) ==
    [data |-> data, modified |-> FALSE, sid |-> sid, new |-> new]

NullSession == Session(EmptyMap, <<>>, FALSE)

\* Session.should_save
should_save(s) == s.modified \/ s.new

\* the hexdigest characters of the keys the model generates, in order
GenChars == <<"a", "b", "c", "d", "e", "f">>

\* generate_key: sha1(salt, time, urandom).hexdigest(), KeyLen lowercase hex
\* characters; the n-th call gives the n-th digest, never an earlier one
generate_key(given) == Fill(GenChars[Cardinality(given) + 1], KeyLen)

GenKeys == {Fill(GenChars[i], KeyLen) : i \in 1..Len(GenChars)}

\* the key of a record left in the directory by earlier requests
OldKey == Fill(GenChars[1], KeyLen)

\* ids a client sends that no store generated: a well-formed one and a
\* malformed one
UpperKey == Fill("A", KeyLen)

ShortKey == <<"n", "o", "t", "-", "a", "n", "-", "i", "d">>

ForgedKeys == {UpperKey, ShortKey}

\* SessionStore.new
new(k) == Session(EmptyMap, k, TRUE)

(***************************************************************************)
(* SpecBase: get of the base class SessionStore on candidate keys; the     *)
(* base class keeps no records                                             *)
(***************************************************************************)
\* SessionStore.get: return self.session_class({}, sid, True)
SessionStore_get(sid) == Session(EmptyMap, sid, TRUE)

\* get(key) is called on a store of the base class
SessionStoreGetCall ==
    /\ kpc = "ready"
    /\ returned' = SessionStore_get(key)
    /\ kpc' = "got"
    /\ UNCHANGED <<key, valid, dictVars, storeVars>>

NextBase == SessionStoreGetCall

SpecBase == InitKey /\ [][NextBase]_vars

\* a save_if_modified that looks at the new flag alone
save_if_modified_new_only(s) == s.new

\* a save_if_modified that saves whatever the flags are
save_if_modified_always(s) == TRUE

\* SessionStore.save_if_modified: whether it calls save
save_if_modified(s) == should_save(s)

(***************************************************************************)
(* The pickle codec.  A pickled dict is a sequence of blocks: one per      *)
(* item, in the dict's iteration order, then the STOP opcode.  A block the *)
(* file system filled in (a hole) is no opcode.                            *)
(***************************************************************************)
SessionKeys == {"cart", "user"}

SessionVals == {1}

\* a value the codec cannot serialize (a lambda, an open file)
Unpicklable == 0

\* whether dump serializes every value of m
picklable(m) == \A k \in DOMAIN m : m[k] # Unpicklable

IterOrder == <<"cart", "user">>

Item(k, v) == <<"ITEM", k, v>>

StopOp == <<"STOP">>

Hole == <<"HOLE">>

\* the blocks of the items from the i-th on and the STOP; at a value that
\* cannot be serialized the pickler raises, and nothing more is written
RECURSIVE DumpFrom(_, _)
DumpFrom(m, i) ==
    IF i > Len(IterOrder) THEN <<StopOp>>
    ELSE IF IterOrder[i] \in DOMAIN m
         THEN IF m[IterOrder[i]] = Unpicklable THEN <<>>
              ELSE <<Item(IterOrder[i], m[IterOrder[i]])>> \o DumpFrom(m, i + 1)
         ELSE DumpFrom(m, i + 1)

\* a dump that leaves the first item out
dump_dropping_first(m) == Tail(DumpFrom(m, 1))

\* cPickle.dump(dict(session), f, HIGHEST_PROTOCOL): the blocks written to f
dump(m) == DumpFrom(m, 1)

RECURSIVE LoadFrom(_, _, _)
LoadFrom(bytes, i, acc) ==
    IF i > Len(bytes) THEN [ok |-> FALSE, data |-> EmptyMap]
    ELSE IF bytes[i] = StopOp THEN [ok |-> TRUE, data |-> acc]
    ELSE IF bytes[i][1] = "ITEM"
         THEN LoadFrom(bytes, i + 1, SetKey(acc, bytes[i][2], bytes[i][3]))
         ELSE [ok |-> FALSE, data |-> EmptyMap]

\* cPickle.load(f): reads up to the first STOP and ignores what follows it;
\* the end of the file before a STOP is EOFError, a hole UnpicklingError
load(bytes) == LoadFrom(bytes, 1, EmptyMap)

(***************************************************************************)
(* The store's directory                                                   *)
(***************************************************************************)
TemplatePrefix == <<"w", "e", "r", "k", "z", "e", "u", "g", "_">>

TemplateSuffix == <<".", "s", "e", "s", "s">>

\* path.join(self.path, self.filename_template % sid), inside self.path
get_session_filename(sid) == TemplatePrefix \o sid \o TemplateSuffix

FileNames == {get_session_filename(k) : k \in GenKeys \cup ForgedKeys}

NoFile == [exists |-> FALSE, bytes |-> <<>>]

path_exists(fsys, fn) == fn \in DOMAIN fsys /\ fsys[fn].exists

\* write(2) of blocks at offset off of a file; a gap before off reads as holes
WriteAt(bytes, off, blocks) ==
    LET n == IF Len(bytes) > off + Len(blocks) THEN Len(bytes) ELSE off + Len(blocks)
    IN [i \in 1..n |->
           IF i > off /\ i <= off + Len(blocks) THEN blocks[i - off]
           ELSE IF i <= Len(bytes) THEN bytes[i]
           ELSE Hole]

(***************************************************************************)
(* What the model remembers of each file's past, to state the claims:      *)
(*   last   "none", "writing" (a save has opened or written the file and   *)
(*          not completed since), "saved" (a save completed and nothing    *)
(*          touched the file since), "deleted" (a delete returned and no   *)
(*          save opened the file since)                                    *)
(*   data   the mapping of the save that completed last                    *)
(*   dels   the deletes that returned since the file was last opened for   *)
(*          writing                                                        *)
(***************************************************************************)
Hist(last, data, dels) == [last |-> last, data |-> data, dels |-> dels]

NoHist == Hist("none", EmptyMap, 0)

(***************************************************************************)
(* Requests                                                                *)
(***************************************************************************)
\* workers; Spec runs the first of them alone
NumReq == 2

Reqs == 1..NumReq

BaseHeaders == << <<"Content-Type", "text/plain">> >>

\* dump_cookie(self.cookie_name, session.sid, ...), as a header
SetCookie(sid) == <<"Set-Cookie", sid>>

\* what a request remembers of its close: whether should_save held and
\* whether save was called; and what the file held when that save returned
NoCloseRec == [set |-> FALSE, should |-> FALSE, saved |-> FALSE]

NoView == [set |-> FALSE, ok |-> FALSE, data |-> EmptyMap]

\* A request.  pc is where it stands; session is environ['werkzeug.session'];
\* handle, detached, snap, buf and off are the file object of a running save
\* or get; headers is the list of the last start_response call.  The rest
\* is what the claims ask about the request's past.
InitReq ==
    [pc |-> "begin", ret |-> "none", hasCookie |-> FALSE, cookie |-> <<>>,
     fn |-> <<>>, session |-> NullSession,
     origin |-> "none", handle |-> FALSE, detached |-> FALSE, snap |-> <<>>,
     buf |-> <<>>, off |-> 0, headers |-> <<>>, srCalls |-> 0, cookies |-> 0,
     saves |-> 0, mutated |-> FALSE, deleted |-> FALSE, denied |-> FALSE,
     mutBody |-> FALSE, shouldNow |-> FALSE, srLog |-> <<>>,
     existed |-> FALSE, seen |-> NoHist, closeRec |-> NoCloseRec,
     closeView |-> NoView, unreadable |-> FALSE, err |-> "none",
     round |-> 1]

OffReq == [InitReq EXCEPT !.pc = "off"]

OldFile == get_session_filename(OldKey)

\* the mapping of the record earlier requests left under OldKey
OldData == [k \in SessionKeys |-> 1]

\* the directory as earlier requests left it: the record of OldKey holds a
\* saved mapping, or is cut short, or is missing
InitDirectory ==
    \/ /\ fs = [fn \in FileNames |->
                  IF fn = OldFile THEN [exists |-> TRUE, bytes |-> dump(OldData)]
                  ELSE NoFile]
       /\ hist = [fn \in FileNames |->
                    IF fn = OldFile THEN Hist("saved", OldData, 0) ELSE NoHist]
    \/ /\ fs = [fn \in FileNames |->
                  IF fn = OldFile THEN [exists |-> TRUE, bytes |-> <<>>]
                  ELSE NoFile]
       /\ hist = [fn \in FileNames |-> NoHist]
    \/ /\ fs = [fn \in FileNames |-> NoFile]
       /\ hist = [fn \in FileNames |-> NoHist]

\* issued: the keys generate_key has returned; sent: the ids that clients
\* hold, from an earlier visit or from a Set-Cookie of this run
\* used: the container operations and deletes each worker's handlers have
\* run so far, held against the budgets in lim
InitOthers ==
    /\ issued = {OldKey}
    /\ sent = {OldKey}
    /\ key = <<>>
    /\ valid = FALSE
    /\ kpc = "ready"
    /\ returned = <<>>
    /\ mtd = ModificationTrackingDict(EmptyMap)
    /\ lastop = [op |-> "init", raised |-> FALSE]
    /\ copied = NoCopy
    /\ used = [r \in Reqs |-> [ops |-> 0, dels |-> 0]]

\* one request at a time, MaxRounds of them
Init ==
    /\ req = [r \in Reqs |-> IF r = 1 THEN InitReq ELSE OffReq]
    /\ lim = [ops |-> MaxOps, sr |-> MaxSR, dels |-> MaxDel,
              rounds |-> MaxRounds, forged |-> TRUE, faults |-> FALSE]
    /\ InitDirectory
    /\ InitOthers

\* the same, in a directory whose files the process may be refused to remove
InitFault ==
    /\ req = [r \in Reqs |-> IF r = 1 THEN InitReq ELSE OffReq]
    /\ lim = [ops |-> ConcOps, sr |-> ConcSR, dels |-> ConcDel,
              rounds |-> MaxRounds, forged |-> FALSE, faults |-> TRUE]
    /\ InitDirectory
    /\ InitOthers

\* the record two tabs of one browser share
SharedData == [k \in {"user"} |-> 1]

\* NumReq requests at once, each handled once, over a directory that holds
\* the record of OldKey
InitConc ==
    /\ req = [r \in Reqs |-> InitReq]
    /\ lim = [ops |-> ConcOps, sr |-> ConcSR, dels |-> ConcDel,
              rounds |-> 1, forged |-> FALSE, faults |-> FALSE]
    /\ fs = [fn \in FileNames |->
                IF fn = OldFile THEN [exists |-> TRUE, bytes |-> dump(SharedData)]
                ELSE NoFile]
    /\ hist = [fn \in FileNames |->
                  IF fn = OldFile THEN Hist("saved", SharedData, 0) ELSE NoHist]
    /\ InitOthers

\* request q after another request unlinked fn: an open handle keeps the
\* unlinked file, which no name reaches any more
Detach(q, fn, bytes) ==
    IF q.handle /\ q.fn = fn /\ ~q.detached
    THEN [q EXCEPT !.detached = TRUE, !.snap = bytes]
    ELSE q

\* SessionMiddleware.__call__, no cookie: session = self.store.new()
BeginNoCookie(r) ==
    /\ req[r].pc = "begin"
    /\ Cardinality(issued) < Len(GenChars)
    /\ LET k == generate_key(issued)
           s == new(k)
       IN /\ req' = [req EXCEPT ![r] = [@ EXCEPT !.pc = "app", !.session = s,
                                                 !.origin = "new"]]
          /\ issued' = issued \cup {k}
    /\ UNCHANGED <<fs, hist, used, sent, otherVars>>

\* a get that binds the fresh session to the requested id
get_miss_adopting(sid, k) == Session(EmptyMap, sid, TRUE)

\* FilesystemSessionStore.get, invalid key or no file: return self.new()
get_miss(sid, k) == new(k)

\* whether get takes the new() branch
get_lookup_misses(sid, fsys) ==
    ~is_valid_key(sid) \/ ~path_exists(fsys, get_session_filename(sid))

\* SessionMiddleware.__call__ with a cookie: session = self.store.get(sid),
\* up to the test of the key and of the file's existence
BeginCookie(r) ==
    /\ req[r].pc = "begin"
    /\ Cardinality(issued) < Len(GenChars)
    /\ \E sid \in sent \cup (IF lim.forged THEN ForgedKeys ELSE {}) :
         LET fn == get_session_filename(sid)
             k == generate_key(issued)
             s == get_miss(sid, k)
             seen == [req[r] EXCEPT
                        !.hasCookie = TRUE, !.cookie = sid, !.fn = fn,
                        !.existed = path_exists(fs, fn),
                        !.seen = hist[fn]]
         IN IF get_lookup_misses(sid, fs)
            THEN /\ req' = [req EXCEPT ![r] = [seen EXCEPT
                               !.pc = "app", !.session = s,
                               !.origin = "miss"]]
                 /\ issued' = issued \cup {k}
            ELSE /\ req' = [req EXCEPT ![r] = [seen EXCEPT !.pc = "get_open"]]
                 /\ UNCHANGED issued
    /\ UNCHANGED <<fs, hist, used, sent, otherVars>>

\* an open that truncates the file, as mode 'wb' does
file_rb_truncating(fsys, fn) ==
    [fsys EXCEPT ![fn] = [exists |-> TRUE, bytes |-> <<>>]]

\* file(fn, 'rb') on a file that exists: the directory after the open
file_rb(fsys, fn) == fsys

\* get: f = file(fn, 'rb'); IOError when the file is gone by now
GetOpen(r) ==
    /\ req[r].pc = "get_open"
    /\ IF path_exists(fs, req[r].fn)
       THEN /\ req' = [req EXCEPT ![r] = [@ EXCEPT
                          !.pc = "get_load", !.handle = TRUE]]
            /\ fs' = file_rb(fs, req[r].fn)
       ELSE /\ req' = [req EXCEPT ![r] = [@ EXCEPT
                          !.pc = "raised", !.err = "IOError"]]
            /\ UNCHANGED fs
    /\ UNCHANGED <<hist, issued, used, sent, otherVars>>

\* a get that takes an unreadable record for a missing one
get_loaded_masking(res, sid) ==
    IF res.ok THEN [raised |-> FALSE, session |-> Session(res.data, sid, FALSE)]
    ELSE [raised |-> FALSE, session |-> Session(EmptyMap, sid, TRUE)]

\* get: data = load(f) (an exception of load leaves get, after f.close()),
\* then self.session_class(data, sid, False)
get_loaded(res, sid) ==
    IF res.ok THEN [raised |-> FALSE, session |-> Session(res.data, sid, FALSE)]
    ELSE [raised |-> TRUE, session |-> NullSession]

\* a get or a save that closes its file only when nothing was raised
closes_on_success(ok) == ok

\* get and save: try: ... finally: f.close()
closes(ok) == TRUE

\* get: try: data = load(f) finally: f.close(), and the return
GetLoad(r) ==
    /\ req[r].pc = "get_load"
    /\ LET q == req[r]
           bytes == IF q.detached THEN q.snap ELSE fs[q.fn].bytes
           got == get_loaded(load(bytes), q.cookie)
           closed == [q EXCEPT !.handle = ~closes(load(bytes).ok),
                               !.detached = FALSE,
                               !.snap = <<>>, !.unreadable = ~load(bytes).ok]
       IN IF got.raised
          THEN req' = [req EXCEPT ![r] = [closed EXCEPT
                          !.pc = "raised", !.err = "LoadError"]]
          ELSE req' = [req EXCEPT ![r] = [closed EXCEPT
                          !.pc = "app", !.session = got.session,
                          !.origin = "loaded"]]
    /\ UNCHANGED <<fs, hist, issued, used, sent, otherVars>>

\* the handler applies a container operation to environ['werkzeug.session']
\* (a KeyError of the operation is caught by the handler)
Mutate(r) ==
    /\ req[r].pc = "app"
    /\ used[r].ops < lim.ops
    /\ \E res \in {dict_setitem(req[r].session.data, k, v) :
                      k \in SessionKeys,
                      v \in SessionVals \cup
                            (IF lim.faults THEN {Unpicklable} ELSE {})}
              \cup {dict_delitem(req[r].session.data, k) : k \in SessionKeys}
              \cup {dict_clear(req[r].session.data)} :
         req' = [req EXCEPT ![r] = [@ EXCEPT
                    !.session = call_with_modification(@, res),
                    !.mutated = TRUE,
                    !.mutBody = @ \/ req[r].srCalls > 0]]
    /\ used' = [used EXCEPT ![r].ops = @ + 1]
    /\ UNCHANGED <<fs, hist, issued, sent, otherVars>>

\* os.unlink(fn): the file is removed ("ok"), or OSError with ENOENT for a
\* missing file, or OSError with EACCES for a file the process may not remove
unlink(existed, denied) ==
    IF ~existed THEN "ENOENT" ELSE IF denied THEN "EACCES" ELSE "ok"

\* a delete that lets the OSError of a missing file out
delete_unguarded(errno) == [raised |-> errno = "ENOENT"]

\* FilesystemSessionStore.delete: try: unlink(fn) except OSError: pass
delete_outcome(errno) == [raised |-> FALSE]

\* the handler calls store.delete(session)
Delete(r) ==
    /\ req[r].pc = "app"
    /\ used[r].dels < lim.dels
    /\ \E denied \in (IF lim.faults THEN BOOLEAN ELSE {FALSE}) :
         LET fn == get_session_filename(req[r].session.sid)
             errno == unlink(path_exists(fs, fn), denied)
             out == delete_outcome(errno)
         IN IF out.raised
            THEN /\ req' = [req EXCEPT ![r] = [@ EXCEPT
                               !.pc = "raised", !.err = "OSError",
                               !.denied = errno = "EACCES"]]
                 /\ UNCHANGED <<fs, hist>>
            ELSE IF errno = "EACCES"
            THEN /\ req' = [req EXCEPT ![r].denied = TRUE]
                 /\ UNCHANGED <<fs, hist>>
            ELSE /\ req' = [q \in Reqs |->
                              IF q = r THEN [req[r] EXCEPT !.deleted = TRUE]
                              ELSE Detach(req[q], fn, fs[fn].bytes)]
                 /\ fs' = [fs EXCEPT ![fn] = NoFile]
                 /\ hist' = [hist EXCEPT ![fn] =
                                Hist("deleted", EmptyMap, @.dels + 1)]
    /\ used' = [used EXCEPT ![r].dels = @ + 1]
    /\ UNCHANGED <<issued, sent, otherVars>>

\* an injecting_start_response that appends the cookie without the save
sr_first_step_append(should) == IF should THEN "sr_finish" ELSE "call"

\* injecting_start_response: what it does first, self.store.save(session)
\* when session.should_save, else the call of start_response
sr_first_step(should) == IF should THEN "save_open" ELSE "call"

\* the handler calls injecting_start_response(status, headers, exc_info),
\* with a new headers list or, in a later call, the list of the call before:
\* if session.should_save, self.store.save(session) comes first
StartResponse(r) ==
    /\ req[r].pc = "app"
    /\ req[r].srCalls < lim.sr
    /\ \E reuse \in BOOLEAN :
         /\ reuse => req[r].srCalls > 0
         /\ LET passed == IF reuse THEN req[r].headers ELSE BaseHeaders
                should == req[r].session.modified \/ req[r].session.new
                step == sr_first_step(should_save(req[r].session))
            IN IF step = "save_open"
               THEN req' = [req EXCEPT ![r] = [@ EXCEPT
                               !.pc = "save_open", !.ret = "sr",
                               !.headers = passed, !.shouldNow = should,
                               !.saves = @ + 1]]
               ELSE IF step = "sr_finish"
               THEN req' = [req EXCEPT ![r] = [@ EXCEPT
                               !.pc = "sr_finish", !.ret = "sr",
                               !.headers = passed, !.shouldNow = should]]
               ELSE req' = [req EXCEPT ![r] = [@ EXCEPT
                               !.headers = passed, !.srCalls = @ + 1,
                               !.srLog = Append(@, [should |-> should,
                                                    cookie |-> FALSE])]]
    /\ UNCHANGED <<fs, hist, issued, used, sent, otherVars>>

\* the ClosingIterator is closed: self.store.save_if_modified(session)
Close(r) ==
    /\ req[r].pc = "app"
    /\ req[r].srCalls > 0
    /\ LET should == req[r].session.modified \/ req[r].session.new
       IN IF save_if_modified(req[r].session)
          THEN req' = [req EXCEPT ![r] = [@ EXCEPT
                          !.pc = "save_open", !.ret = "close",
                          !.saves = @ + 1,
                          !.closeRec = [set |-> TRUE, should |-> should,
                                        saved |-> TRUE]]]
          ELSE req' = [req EXCEPT ![r] = [@ EXCEPT
                          !.pc = "done",
                          !.closeRec = [set |-> TRUE, should |-> should,
                                        saved |-> FALSE]]]
    /\ UNCHANGED <<fs, hist, issued, used, sent, otherVars>>

\* save: f = file(self.get_session_filename(session.sid), 'wb'), which
\* creates the file or truncates it
SaveOpen(r) ==
    /\ req[r].pc = "save_open"
    /\ LET fn == get_session_filename(req[r].session.sid)
       IN /\ req' = [req EXCEPT ![r] = [@ EXCEPT
                          !.pc = "save_write", !.fn = fn, !.handle = TRUE,
                          !.detached = FALSE,
                          !.buf = dump(req[r].session.data), !.off = 0]]
          /\ fs' = [fs EXCEPT ![fn] = [exists |-> TRUE, bytes |-> <<>>]]
          /\ hist' = [hist EXCEPT ![fn] = Hist("writing", EmptyMap, 0)]
    /\ UNCHANGED <<issued, used, sent, otherVars>>

\* a save that marks the session as written back
session_after_save_cleared(s) == [s EXCEPT !.modified = FALSE, !.new = FALSE]

\* save reads session.sid and dict(session) and assigns nothing to session
session_after_save(s) == s

\* save: dump(dict(session), f, HIGHEST_PROTOCOL) and f.close(): the blocks
\* reach the file in one or more writes at the handle's own offset, the last
\* of them when the file is closed
SaveWrite(r) ==
    /\ req[r].pc = "save_write"
    /\ \E n \in 1..Len(req[r].buf) :
         LET q == req[r]
             blocks == SubSeq(q.buf, 1, n)
             rest == SubSeq(q.buf, n + 1, Len(q.buf))
             done == rest = <<>> /\ picklable(q.session.data)
             newfs == IF q.detached THEN fs
                      ELSE [fs EXCEPT ![q.fn].bytes = WriteAt(@, q.off, blocks)]
             seen == IF path_exists(newfs, q.fn) THEN load(newfs[q.fn].bytes)
                     ELSE [ok |-> FALSE, data |-> EmptyMap]
             wrote == [q EXCEPT !.buf = rest, !.off = @ + n]
             after == IF ~done THEN wrote
                      ELSE IF q.ret = "sr"
                      THEN [wrote EXCEPT !.pc = "sr_finish", !.handle = FALSE,
                                         !.detached = FALSE, !.off = 0,
                                         !.session = session_after_save(@)]
                      ELSE [wrote EXCEPT
                              !.pc = "done", !.handle = FALSE,
                              !.detached = FALSE, !.off = 0,
                              !.session = session_after_save(@),
                              !.closeView =
                                  [set |-> TRUE, ok |-> seen.ok,
                                   data |-> seen.data]]
         IN /\ fs' = newfs
            /\ req' = [req EXCEPT ![r] = after]
            /\ hist' = IF q.detached THEN hist
                       ELSE [hist EXCEPT ![q.fn] =
                               IF done
                               THEN Hist("saved", q.session.data, 0)
                               ELSE Hist("writing", EmptyMap, 0)]
    /\ UNCHANGED <<issued, used, sent, otherVars>>

\* save: dump raises PicklingError at a value it cannot serialize, after
\* the blocks before that value were written; f.close() runs and the error
\* leaves save, injecting_start_response or the closing callback
SaveRaise(r) ==
    /\ req[r].pc = "save_write"
    /\ req[r].buf = <<>>
    /\ ~picklable(req[r].session.data)
    /\ req' = [req EXCEPT ![r] = [@ EXCEPT
                  !.pc = "raised", !.err = "PicklingError",
                  !.handle = ~closes(FALSE), !.detached = FALSE, !.off = 0]]
    /\ UNCHANGED <<fs, hist, issued, used, sent, otherVars>>

\* injecting_start_response after the save: headers.append(('Set-Cookie',
\* ...)) and return start_response(status, headers, exc_info)
SrFinish(r) ==
    /\ req[r].pc = "sr_finish"
    /\ req' = [req EXCEPT ![r] = [@ EXCEPT
                  !.pc = "app",
                  !.headers = Append(@, SetCookie(req[r].session.sid)),
                  !.cookies = @ + 1, !.srCalls = @ + 1,
                  !.srLog = Append(@, [should |-> req[r].shouldNow,
                                       cookie |-> TRUE])]]
    /\ sent' = sent \cup {req[r].session.sid}
    /\ UNCHANGED <<fs, hist, issued, used, otherVars>>

\* the server is done with a request and takes the next one
Restart(r) ==
    /\ req[r].pc \in {"done", "raised"}
    /\ req[r].round < lim.rounds
    /\ req' = [req EXCEPT ![r] = [InitReq EXCEPT !.round = req[r].round + 1]]
    /\ UNCHANGED <<fs, hist, issued, used, sent, otherVars>>

Next ==
    \E r \in Reqs :
        \/ Restart(r)
        \/ BeginNoCookie(r)
        \/ BeginCookie(r)
        \/ GetOpen(r)
        \/ GetLoad(r)
        \/ Mutate(r)
        \/ Delete(r)
        \/ StartResponse(r)
        \/ Close(r)
        \/ SaveOpen(r)
        \/ SaveWrite(r)
        \/ SrFinish(r)

Spec == Init /\ [][Next]_vars

NextConc ==
    \E r \in Reqs :
        \/ BeginNoCookie(r)
        \/ BeginCookie(r)
        \/ GetOpen(r)
        \/ GetLoad(r)
        \/ Mutate(r)
        \/ Delete(r)
        \/ StartResponse(r)
        \/ Close(r)
        \/ SaveOpen(r)
        \/ SaveWrite(r)
        \/ SrFinish(r)

SpecConc == InitConc /\ [][NextConc]_vars

NextFault == Next \/ \E r \in Reqs : SaveRaise(r)

SpecFault == InitFault /\ [][NextFault]_vars

(***************************************************************************)
(* C1: round trip.  When get(sid) finds, at its lookup, the record of sid  *)
(* as a completed save left it (no save or delete of sid since), get does  *)
(* not raise and returns a session with that sid, new = False, and the     *)
(* contents the saved session had at save time.                            *)
(***************************************************************************)
GetReturned(q) == q.pc \notin {"begin", "get_open", "get_load", "raised", "off"}

C1_SaveGetRoundTrip ==
    \A r \in Reqs :
        (req[r].hasCookie /\ req[r].seen.last = "saved") =>
            /\ req[r].pc # "raised"
            /\ GetReturned(req[r]) =>
                  /\ req[r].origin = "loaded"
                  /\ req[r].session.sid = req[r].cookie
                  /\ ~req[r].session.new
                  /\ ~req[r].mutated =>
                        /\ req[r].session.data = req[r].seen.data
                        /\ ~req[r].session.modified

\* the second request loads what the first one saved under its new key
C1_Witness ==
    \E r \in Reqs :
        /\ req[r].round = 2
        /\ req[r].origin = "loaded"
        /\ req[r].cookie # OldKey
        /\ req[r].seen.last = "saved"
        /\ req[r].seen.data # EmptyMap
        /\ req[r].session.data = req[r].seen.data
        /\ ~req[r].mutated

(***************************************************************************)
(* C2: get(id), when id fails is_valid_key or no file exists for id at the *)
(* lookup, returns a session with new = True, empty data and a generated   *)
(* sid other than id; the session's sid is the client's id only when id is *)
(* valid and its file existed at the lookup.                               *)
(***************************************************************************)
C2_MissGivesFreshSession ==
    \A r \in Reqs :
        (req[r].hasCookie /\ req[r].pc # "off") =>
            /\ (~is_valid_key(req[r].cookie) \/ ~req[r].existed) =>
                  /\ req[r].origin = "miss"
                  /\ req[r].session.new
                  /\ req[r].session.sid # req[r].cookie
                  /\ req[r].session.sid \in GenKeys
                  /\ ~req[r].mutated =>
                        /\ req[r].session.data = EmptyMap
                        /\ ~req[r].session.modified
            /\ req[r].session.sid = req[r].cookie =>
                  /\ is_valid_key(req[r].cookie)
                  /\ req[r].existed

\* a well-formed id that has no record
C2_Witness ==
    \E r \in Reqs :
        /\ req[r].hasCookie
        /\ req[r].cookie = UpperKey
        /\ is_valid_key(req[r].cookie)
        /\ req[r].origin = "miss"
        /\ req[r].session.new
        /\ req[r].session.sid # UpperKey

(***************************************************************************)
(* C3: in every request a Set-Cookie header is appended in a               *)
(* start_response call iff should_save holds at that call, and at most one *)
(* is appended in the request, whatever the handler's calls and mutations. *)
(***************************************************************************)
SetCookies(headers) ==
    Cardinality({i \in 1..Len(headers) : headers[i][1] = "Set-Cookie"})

C3_OneSetCookiePerRequest ==
    \A r \in Reqs :
        /\ \A i \in 1..Len(req[r].srLog) :
              req[r].srLog[i].cookie <=> req[r].srLog[i].should
        /\ req[r].cookies <= 1
        /\ SetCookies(req[r].headers) <= 1

(***************************************************************************)
(* C4: a mutation the handler applies to the session after its first       *)
(* start_response call is persisted: when the response iterator has been   *)
(* closed, the record of session.sid holds the session's final contents.   *)
(***************************************************************************)
C4_BodyMutationPersisted ==
    \A r \in Reqs :
        (req[r].pc = "done" /\ req[r].mutBody) =>
            /\ req[r].closeView.set
            /\ req[r].closeView.ok
            /\ req[r].closeView.data = req[r].session.data

\* a loaded session, written to only while the body was streamed
C4_Witness ==
    \E r \in Reqs :
        /\ req[r].pc = "done"
        /\ req[r].origin = "loaded"
        /\ req[r].mutBody
        /\ req[r].cookies = 0
        /\ req[r].seen.data = EmptyMap
        /\ req[r].session.data # EmptyMap
        /\ req[r].closeView.data = req[r].session.data

(***************************************************************************)
(* C5: save_if_modified calls save iff modified or new is set; for a       *)
(* session get loaded from a record and nothing mutated, the request       *)
(* calls save not once, appends no Set-Cookie and, the handler not         *)
(* deleting it either, leaves the record as the lookup found it.           *)
(***************************************************************************)
C5_SaveIffShouldSave ==
    \A r \in Reqs :
        /\ req[r].closeRec.set =>
              (req[r].closeRec.saved <=> req[r].closeRec.should)
        /\ (req[r].origin = "loaded" /\ ~req[r].mutated) =>
              /\ req[r].saves = 0
              /\ req[r].cookies = 0
              /\ ~req[r].closeRec.saved
              /\ req[r].pc # "save_open"
              /\ ~req[r].deleted =>
                    /\ hist[req[r].fn] = req[r].seen
                    /\ fs[req[r].fn].exists

\* a request that loaded a session, left it alone and is closed
C5_Witness ==
    \E r \in Reqs :
        /\ req[r].pc = "done"
        /\ req[r].origin = "loaded"
        /\ ~req[r].mutated
        /\ req[r].closeRec.set
        /\ ~req[r].closeRec.saved
        /\ req[r].srCalls > 0
        /\ req[r].saves = 0

(***************************************************************************)
(* C8: delete returns normally whether or not the record exists; after it  *)
(* returned, and until a save opens the file, there is no record of the    *)
(* sid and get(sid) returns a new session; a second delete changes         *)
(* nothing.                                                                *)
(***************************************************************************)
C8_DeleteRemovesRecord ==
    /\ \A r \in Reqs :
          /\ req[r].err # "OSError"
          /\ (req[r].hasCookie /\ req[r].seen.last = "deleted") =>
                /\ req[r].origin = "miss"
                /\ req[r].session.new
    /\ \A fn \in FileNames : hist[fn].last = "deleted" => fs[fn] = NoFile

\* the record was deleted twice, and the next request's get gave a new session
C8_Witness ==
    \E r \in Reqs :
        /\ req[r].hasCookie
        /\ req[r].seen.last = "deleted"
        /\ req[r].seen.dels = 2
        /\ req[r].origin = "miss"
        /\ req[r].session.new

(***************************************************************************)
(* C9: when two requests save sessions with the same sid concurrently,     *)
(* after both saves completed the record is the mapping of the save that   *)
(* completed last.                                                         *)
(***************************************************************************)
Writing(fn) ==
    \E r \in Reqs :
        req[r].pc = "save_write" /\ req[r].fn = fn /\ ~req[r].detached

C9_LastWriterWinsInFull ==
    \A fn \in FileNames :
        (hist[fn].last = "saved" /\ ~Writing(fn)) =>
            /\ fs[fn].exists
            /\ load(fs[fn].bytes).ok
            /\ load(fs[fn].bytes).data = hist[fn].data

(***************************************************************************)
(* C10: when the file of a valid id exists and cannot be deserialized, get *)
(* raises instead of returning a new session, and the request ends there:  *)
(* the handler is not called, nothing is saved, no Set-Cookie is appended. *)
(***************************************************************************)
C10_UnreadableRecordRaises ==
    \A r \in Reqs :
        req[r].unreadable =>
            /\ req[r].pc = "raised"
            /\ req[r].origin = "none"
            /\ req[r].session = NullSession
            /\ ~req[r].handle
            /\ req[r].srCalls = 0
            /\ ~req[r].mutated
            /\ ~req[r].deleted
            /\ req[r].saves = 0
            /\ req[r].cookies = 0
            /\ req[r].headers = <<>>

\* the record of a valid id is cut short, and the request raised in get
C10_Witness ==
    \E r \in Reqs :
        /\ req[r].unreadable
        /\ req[r].pc = "raised"
        /\ req[r].err = "LoadError"
        /\ is_valid_key(req[r].cookie)
        /\ req[r].existed

(***************************************************************************)
(* C6: modified is false right after construction, true after every call   *)
(* of a wrapped mutator (also one that changed nothing and one that        *)
(* raised), and no container operation turns it from true back to false.   *)
(***************************************************************************)
C6_FlagAfterCall ==
    /\ lastop.op = "init" => ~mtd.modified
    /\ lastop.op \in Mutators => mtd.modified

C6_ModifiedTracksMutation ==
    /\ []C6_FlagAfterCall
    /\ [][mtd.modified => mtd'.modified]_vars

\* a pop of a missing key raised, and the flag is set
C6_Witness ==
    /\ lastop.op = "pop"
    /\ lastop.raised
    /\ mtd.modified
    /\ mtd.data = EmptyMap

(***************************************************************************)
(* C7: is_valid_key(key) is true iff key is exactly KeyLen hexadecimal     *)
(* digits; 40 hex digits followed by a line feed are rejected.             *)
(***************************************************************************)
C7_ExactlyKeyLenHex ==
    kpc = "called" =>
        (valid <=> (Len(key) = KeyLen /\ \A i \in 1..Len(key) : key[i] \in HexDigits))

(***************************************************************************)
(* C11: copy() returns a new container that holds the key/value pairs and  *)
(* the modified flag the original has at the call.                         *)
(***************************************************************************)
C11_CopyKeepsItemsAndFlag ==
    lastop.op = "copy" =>
        /\ ~lastop.raised
        /\ copied.made
        /\ copied.data = mtd.data
        /\ copied.modified = mtd.modified

(***************************************************************************)
(* C12: whenever a request passes a headers list with a Set-Cookie header  *)
(* to the server's start_response, that call's save of the session has     *)
(* completed before: the request has called save, no file of it is open,   *)
(* and the record of session.sid holds the session's contents.             *)
(***************************************************************************)
C12_SaveBeforeSetCookie ==
    [][\A r \in Reqs :
          (req'[r].srCalls > req[r].srCalls /\ SetCookies(req'[r].headers) > 0) =>
              LET fn == get_session_filename(req[r].session.sid)
              IN /\ req[r].saves > 0
                 /\ ~req[r].handle
                 /\ req[r].buf = <<>>
                 /\ hist[fn] = Hist("saved", req[r].session.data, 0)
                 /\ path_exists(fs, fn)
                 /\ load(fs[fn].bytes) = [ok |-> TRUE, data |-> req[r].session.data]]_vars

\* a first visit: the cookie of a new session went out with the response
C12_Witness ==
    \E r \in Reqs :
        /\ req[r].origin = "new"
        /\ req[r].pc = "app"
        /\ req[r].srCalls = 1
        /\ req[r].cookies = 1
        /\ SetCookies(req[r].headers) = 1
        /\ req[r].headers[Len(req[r].headers)] = SetCookie(req[r].session.sid)

(***************************************************************************)
(* C13: among requests that run at once over complete records, no get      *)
(* reads a file that does not deserialize (empty, cut short or partly      *)
(* written by a save in progress); a get loads a whole mapping or finds no *)
(* record.                                                                 *)
(***************************************************************************)
C13_GetNeverSeesPartialRecord ==
    \A r \in Reqs :
        /\ ~req[r].unreadable
        /\ req[r].err # "LoadError"

(***************************************************************************)
(* C14: get raises no not-found error for a missing record: when a delete  *)
(* of the same id removes the file between get's existence test and its    *)
(* opening of the file, get still returns a new session.                   *)
(***************************************************************************)
C14_GetNeverRaisesNotFound ==
    \A r \in Reqs :
        req[r].hasCookie =>
            /\ req[r].err # "IOError"
            /\ (req[r].pc = "app" /\ ~path_exists(fs, req[r].fn)
                   /\ req[r].origin # "loaded") => req[r].session.new

(***************************************************************************)
(* C15: when unlink fails with an error other than "no such file"          *)
(* (permission denied), delete passes the error on to its caller, and the  *)
(* record stays in place.                                                  *)
(***************************************************************************)
C15_DeletePropagatesOtherErrors ==
    \A r \in Reqs :
        req[r].denied =>
            /\ req[r].pc = "raised"
            /\ req[r].err = "OSError"
            /\ path_exists(fs, get_session_filename(req[r].session.sid))

(***************************************************************************)
(* C16: in a request whose start_response call saved the session and whose *)
(* handler did not mutate the session after that, the save_if_modified of  *)
(* the closing step does not call save again.                              *)
(***************************************************************************)
C16_CloseAfterSaveIsNoOp ==
    \A r \in Reqs :
        (req[r].closeRec.set /\ req[r].cookies > 0 /\ ~req[r].mutBody) =>
            /\ ~req[r].closeRec.saved
            /\ req[r].saves = req[r].cookies

(***************************************************************************)
(* C17: get(id) of the base class SessionStore, which keeps no record of   *)
(* any id, returns what new() returns: a session with new = True, no data  *)
(* and a generated sid; for an id that fails is_valid_key the sid is not   *)
(* the requested id.                                                       *)
(***************************************************************************)
C17_BaseGetBehavesAsNew ==
    kpc = "got" =>
        /\ returned = new(generate_key(issued))
        /\ ~is_valid_key(key) => returned.sid # key

(***************************************************************************)
(* C18: a request that is not inside a get or a save holds no file of the  *)
(* store open, also after a save whose dump raised and after a get whose   *)
(* load raised.                                                            *)
(***************************************************************************)
C18_NoHandleAcrossCalls ==
    \A r \in Reqs :
        req[r].pc \notin {"get_load", "save_write"} =>
            /\ ~req[r].handle
            /\ ~req[r].detached

\* a save whose dump raised, after it wrote one item to the file
C18_Witness ==
    \E r \in Reqs :
        /\ req[r].pc = "raised"
        /\ req[r].err = "PicklingError"
        /\ ~req[r].handle
        /\ path_exists(fs, req[r].fn)
        /\ Len(fs[req[r].fn].bytes) = 1

(***************************************************************************)
(* C19: save and save_if_modified leave the session as it was: no step of  *)
(* a save, and no call of start_response or of the closing callback,       *)
(* changes its contents, sid, modified or new; a session that should be    *)
(* saved stays so until the next request builds another session.           *)
(***************************************************************************)
C19_SaveLeavesSessionUnchanged ==
    [][\A r \in Reqs :
          /\ (/\ req'[r].round = req[r].round
              /\ \/ req[r].pc \in {"save_open", "save_write", "sr_finish"}
                 \/ req'[r].pc \in {"save_open", "done"}
                 \/ req'[r].saves # req[r].saves
                 \/ req'[r].srCalls # req[r].srCalls) =>
                 req'[r].session = req[r].session
          /\ (should_save(req[r].session) /\ ~should_save(req'[r].session)) =>
                 req'[r].pc = "begin"]_vars

\* a new session, still new and unmodified after its two saves
C19_Witness ==
    \E r \in Reqs :
        /\ req[r].pc = "done"
        /\ req[r].saves = 2
        /\ req[r].closeRec.saved
        /\ req[r].closeView.set
        /\ req[r].session.new
        /\ ~req[r].session.modified
        /\ should_save(req[r].session)

(***************************************************************************)
(* C20: the directory changes only in a step of a save or of a delete, and *)
(* then only in the record of that session's sid: the open of a save       *)
(* leaves the file empty, its writes change the file's contents, a delete  *)
(* removes the file.  No step of get or of new changes any record.         *)
(***************************************************************************)
C20_OnlySaveAndDeleteTouchRecords ==
    [][fs' # fs =>
          \E r \in Reqs :
              LET fn == TemplatePrefix \o req[r].session.sid \o TemplateSuffix
              IN /\ \A f \in FileNames : fs'[f] # fs[f] => f = fn
                 /\ \/ /\ req[r].pc = "save_open"
                       /\ req'[r].pc = "save_write"
                       /\ fs'[fn] = [exists |-> TRUE, bytes |-> <<>>]
                    \/ /\ req[r].pc = "save_write"
                       /\ req[r].handle /\ ~req[r].detached
                       /\ fs'[fn].exists
                    \/ /\ req[r].pc = "app"
                       /\ used'[r].dels > used[r].dels
                       /\ fs'[fn] = NoFile]_vars

\* a get of an id that has no record and the new() it led to are over, the
\* request is closed, and there is still no record of the requested id
C20_Witness ==
    \E r \in Reqs :
        /\ req[r].pc = "done"
        /\ req[r].origin = "miss"
        /\ req[r].cookie = UpperKey
        /\ ~req[r].deleted
        /\ fs[get_session_filename(req[r].cookie)] = NoFile
        /\ path_exists(fs, get_session_filename(req[r].session.sid))

====
